---- MODULE Spec2Model ----
(***************************************************************************)
(* A model of partch's exact rational arithmetic (src/src/ratio.rs) and    *)
(* of its lattice of ratios (src/src/lattice.rs).                          *)
(*                                                                         *)
(* The library is a set of pure functions over i32 values.  Each function  *)
(* is an operator computed the way the code computes it; the state machine *)
(* is a caller that invokes one public operation at a time on inputs drawn *)
(* from bounded sets and records the call and its result.  normalize, the  *)
(* only unbounded recursion of the library, is also run one recursive call *)
(* at a time, so that its termination is a property of behaviours.         *)
(*                                                                         *)
(* Integers are i32.  normalize is followed through an overflow of its     *)
(* doubling: with overflow checks the call panics, without them the        *)
(* product wraps.  Every other product of the model stays far below 2^31.  *)
(* The cast of an i32 to f32 rounds to 24 significant bits.                *)
(***************************************************************************)
EXTENDS Integers, Sequences, FiniteSets

VARIABLES op, args, ret, pc, cur, depth, overflowed

vars == <<op, args, ret, pc, cur, depth, overflowed>>

(***************************************************************************)
(* Bounds of the model.                                                    *)
(***************************************************************************)
\* raw numerators and denominators handed to Ratio::new
MaxRaw == 12
\* raw operands of the ratios that are multiplied
MaxMul == 2
\* numerators and denominators of the positive ratios that are normalized
MaxPos == 8
\* numerators and denominators of the positive ratios that are raised to a power
MaxBase == 5
\* absolute value of an exponent
MaxExp == 3
\* absolute value of the modulus of a ZeroBounded axis
MaxMod == 4
\* absolute value of the ends of a RangeBounded axis
MaxRange == 3
\* absolute value of an index that is resolved on its own
MaxIndex == 9
\* number of axes of a lattice, and of coordinates of a query
MaxLen == 2
\* absolute value of a coordinate of a query
MaxCoord == 2
\* the recursive calls of normalize that are counted
MaxDepth == 40

(***************************************************************************)
(* i32 and f32                                                             *)
(***************************************************************************)
\* i32::MAX
I32Max == 2147483647

I32Min == -I32Max - 1

\* the bits of the significand of an f32
MantissaBits == 24

Abs(x) == IF x < 0 THEN -x ELSE x

RECURSIVE ipow(_, _)
ipow(base, e) == IF e = 0 THEN 1 ELSE base * ipow(base, e - 1)

\* i32 division truncates towards zero.  i32::MIN / -1 panics in every build.
quot(a, b) ==
    IF b > 0
    THEN IF a >= 0 \/ a % b = 0 THEN a \div b ELSE (a \div b) + 1
    ELSE IF b = I32Min THEN (IF a = I32Min THEN 1 ELSE 0)
    ELSE IF a = I32Min /\ b = -1 THEN "attempt to divide with overflow"
    ELSE LET nb == -b
             q == IF a >= 0 \/ a % nb = 0 THEN a \div nb ELSE (a \div nb) + 1
         IN -q

\* the i32 remainder has the sign of the dividend
rem(a, b) == a - b * quot(a, b)

\* v * 2 does not fit an i32
double_overflows(v) == v > I32Max \div 2 \/ v < I32Min \div 2

\* v * 2 modulo 2^32, as an i32, of a v whose double does not fit
wrapping_double(v) ==
    IF v > 0
    THEN ((v - (I32Max \div 2 + 1)) * 2 - I32Max) - 1
    ELSE ((v + (I32Max \div 2 + 1)) * 2 + I32Max) + 1

\* 2^24: from here on an f32 does not hold every integer
F32Limit == ipow(2, MantissaBits)

\* the bits that a >= 0 has beyond the 24 of a significand
RECURSIVE f32_exp(_)
f32_exp(a) == IF a < F32Limit THEN 0 ELSE 1 + f32_exp(a \div 2)

\* a / u rounded to the nearest integer, ties to even
f32_round(a, u) ==
    LET q == a \div u
        r == a % u
    IN IF 2 * r < u THEN q
       ELSE IF 2 * r > u THEN q + 1
       ELSE IF q % 2 = 0 THEN q ELSE q + 1

\* `v as f32`: the nearest float, ties to even.  A float is a sign and a
\* magnitude m * 2^e with m < 2^24, and m >= 2^23 when e > 0.
as_f32(v) ==
    IF v = I32Min
    THEN [neg |-> TRUE, e |-> 32 - MantissaBits, m |-> F32Limit \div 2]
    ELSE LET e == f32_exp(Abs(v))
             m == f32_round(Abs(v), ipow(2, e))
         IN IF m = F32Limit
            THEN [neg |-> v < 0, e |-> e + 1, m |-> F32Limit \div 2]
            ELSE [neg |-> v < 0, e |-> e, m |-> m]

\* |x| < |y| for two floats
f32_mag_lt(x, y) == x.e < y.e \/ (x.e = y.e /\ x.m < y.m)

\* 2 * x for a float: exact
f32_double(x) ==
    IF x.e = 0 /\ x.m < F32Limit \div 2
    THEN [x EXCEPT !.m = 2 * x.m]
    ELSE [x EXCEPT !.e = x.e + 1]

(***************************************************************************)
(* ratio.rs                                                                *)
(***************************************************************************)
Ratio(n, d) == [numer |-> n, denom |-> d]

RECURSIVE gcd(_, _)
gcd(a, b) == IF rem(a, b) > 0 THEN gcd(b, rem(a, b)) ELSE b

reduce(a, b) ==
    LET g == gcd(a, b)
    IN <<quot(a, g), quot(b, g)>>

new(numer, denom) ==
    LET p == reduce(numer, denom)
    IN Ratio(p[1], p[2])

mul(self, rhs) == new(self.numer * rhs.numer, self.denom * rhs.denom)

div(self, rhs) == new(self.numer * rhs.denom, rhs.numer * self.denom)

\* The guards of normalize on f = numer as f32 / denom as f32, denom # 0.
\* The division is correctly rounded and 1 and 2 are floats, so for two
\* floats x and y, |x / y| < 1 exactly when |x| < |y|, and |x / y| >= 2
\* exactly when |x| >= 2 |y|: the casts are where f departs from numer/denom.
f32_lt_1(self) ==
    LET n == as_f32(self.numer)
        d == as_f32(self.denom)
    IN n.m = 0 \/ n.neg # d.neg \/ f32_mag_lt(n, d)

f32_ge_2(self) ==
    LET n == as_f32(self.numer)
        d == as_f32(self.denom)
    IN n.m # 0 /\ n.neg = d.neg /\ ~f32_mag_lt(n, f32_double(d))

\* the receivers of the two recursive calls of normalize and its base case
normalize_low(self) == new(self.numer * 2, self.denom)

normalize_high(self) == new(self.numer, self.denom * 2)

normalize_base(self) == new(self.numer, self.denom)

\* a normalize that forgets to call itself on the doubled or halved ratio
normalize_once(self) ==
    IF f32_lt_1(self) THEN normalize_low(self)
    ELSE IF f32_ge_2(self) THEN normalize_high(self)
    ELSE normalize_base(self)

RECURSIVE normalize(_)
normalize(self) ==
    IF f32_lt_1(self) THEN normalize(normalize_low(self))
    ELSE IF f32_ge_2(self) THEN normalize(normalize_high(self))
    ELSE normalize_base(self)

complement(self) == normalize(div(new(2, 1), self))

\* a pow whose negative exponents are those of the reciprocal
pow_reciprocal(self, exp) ==
    IF exp = 0 THEN new(1, 1)
    ELSE IF exp < 0 THEN new(ipow(self.denom, -exp), ipow(self.numer, -exp))
    ELSE new(ipow(self.numer, exp), ipow(self.denom, exp))

RECURSIVE pow(_, _)
pow(self, exp) ==
    IF exp = 0 THEN new(1, 1)
    ELSE IF exp < 0 THEN pow(complement(self), -exp)
    ELSE new(ipow(self.numer, exp), ipow(self.denom, exp))

(***************************************************************************)
(* lattice.rs                                                              *)
(***************************************************************************)
Infinity == [kind |-> "Infinity", a |-> 0, b |-> 0]

ZeroBounded(n) == [kind |-> "ZeroBounded", a |-> n, b |-> 0]

RangeBounded(a, b) == [kind |-> "RangeBounded", a |-> a, b |-> b]

LatticeDimension(ratio, bounds) == [ratio |-> ratio, bounds |-> bounds]

\* the bare remainder, which has the sign of the index
sign_preserving_mod_rem(a, b) == rem(a, b)

sign_preserving_mod(a, b) == rem(rem(a, b) + b, b)

resolve_index(self, index) ==
    IF self.bounds.kind = "Infinity" THEN index
    ELSE IF self.bounds.kind = "ZeroBounded"
    THEN sign_preserving_mod(index, self.bounds.a)
    ELSE LET modulo == self.bounds.b - self.bounds.a + 1
             abs_a == Abs(self.bounds.a)
         IN sign_preserving_mod(index + abs_a, modulo) - abs_a

Lattice(dimensions) == [dimensions |-> dimensions]

\* a pairing that repeats the last coordinate for the axes beyond it
RECURSIVE zip_broadcast(_, _)
zip_broadcast(dimensions, indices) ==
    IF dimensions = <<>> \/ indices = <<>> THEN <<>>
    ELSE <<<<Head(dimensions), Head(indices)>>>>
             \o zip_broadcast(Tail(dimensions),
                              IF Len(indices) = 1 THEN indices ELSE Tail(indices))

\* Iterator::zip: pairs until either side is exhausted
RECURSIVE zip(_, _)
zip(dimensions, indices) ==
    IF dimensions = <<>> \/ indices = <<>> THEN <<>>
    ELSE <<<<Head(dimensions), Head(indices)>>>>
             \o zip(Tail(dimensions), Tail(indices))

\* the closure of map
at_map(pairs) ==
    [i \in 1..Len(pairs) |->
        pow(pairs[i][1].ratio, resolve_index(pairs[i][1], pairs[i][2]))]

\* fold(init, |e, acc| acc * e): e is the accumulator, acc the next item
RECURSIVE at_fold(_, _)
at_fold(items, e) ==
    IF items = <<>> THEN e
    ELSE at_fold(Tail(items), mul(Head(items), e))

at(self, indices) == at_fold(at_map(zip(self.dimensions, indices)), new(1, 1))

(***************************************************************************)
(* The inputs of the calls.                                                *)
(***************************************************************************)
RawInt == -MaxRaw..MaxRaw

\* ratios built by Ratio::new from operands of either sign
MulOperands ==
    {new(n, d) : n \in -MaxMul..MaxMul, d \in (-MaxMul..MaxMul) \ {0}}

\* positive ratios whose normalized value fits a Ratio, around the values
\* where `as f32` starts to round (2^24) and where a doubling starts to
\* overflow (2^30)
EdgeRatios ==
    LET f == F32Limit
        h == I32Max \div 2 + 1
    IN {new(f, f + 1), new(f + 1, f), new(2 * f + 1, f + 1), new(f - 1, 2 * f),
        new(h - 1, 1), new(1, h), new(h + 1, h + 4),
        new(I32Max, 1), new(I32Max, 3), new(I32Max - 1, 1)}

\* the positive ratios that are normalized: a ratio is built by Ratio::new
PosRatios == {new(n, d) : n \in 1..MaxPos, d \in 1..MaxPos} \cup EdgeRatios

\* the positive ratios that are raised to a power
Bases == {new(n, d) : n \in 1..MaxBase, d \in 1..MaxBase}

\* the generators of the tests of lattice.rs
Generators == {new(3, 2), new(5, 4)}

AllBounds ==
    {Infinity}
    \cup {ZeroBounded(n) : n \in (-MaxMod..MaxMod) \ {0}}
    \cup {RangeBounded(lo, hi) : lo \in -MaxRange..MaxRange, hi \in -MaxRange..MaxRange}

\* RangeBounded with hi < lo is a precondition violation (an inverted range)
LegalBounds == {bd \in AllBounds : bd.kind = "RangeBounded" => bd.a <= bd.b}

\* the axes of the lattices that are queried: those of the tests of lattice.rs
Axes ==
    {LatticeDimension(new(3, 2), Infinity),
     LatticeDimension(new(5, 4), Infinity),
     LatticeDimension(new(3, 2), ZeroBounded(2)),
     LatticeDimension(new(5, 4), RangeBounded(-1, 2))}

SeqsUpTo(S, n) == UNION {[1..k -> S] : k \in 0..n}

(***************************************************************************)
(* The caller: one call of a public operation at a time.                   *)
(* the state machine is a caller that makes one call, holds its result,    *)
(* drops it and calls again.                                               *)
(***************************************************************************)
Init ==
    /\ op = "none"
    /\ args = <<>>
    /\ ret = <<>>
    /\ pc = "idle"
    /\ cur = <<>>
    /\ depth = 0
    /\ overflowed = FALSE

\* the calls below return at once; each is made by a caller that holds no
\* result
CallNew ==
    /\ op = "none"
    /\ \E n \in RawInt, d \in RawInt \ {0} :
        /\ op' = "new"
        /\ args' = [numer |-> n, denom |-> d]
        /\ ret' = new(n, d)
    /\ pc' = "idle"
    /\ cur' = <<>>
    /\ depth' = 0
    /\ overflowed' = FALSE

\* (a * b) * c, the way the fold of Lattice::at chains its products
CallMul ==
    /\ op = "none"
    /\ \E a \in MulOperands, b \in MulOperands, c \in MulOperands :
        /\ op' = "mul"
        /\ args' = [a |-> a, b |-> b, c |-> c]
        /\ ret' = mul(mul(a, b), c)
    /\ pc' = "idle"
    /\ cur' = <<>>
    /\ depth' = 0
    /\ overflowed' = FALSE

CallPow ==
    /\ op = "none"
    /\ \E a \in Bases, e \in -MaxExp..MaxExp :
        /\ op' = "pow"
        /\ args' = [self |-> a, exp |-> e]
        /\ ret' = pow(a, e)
    /\ pc' = "idle"
    /\ cur' = <<>>
    /\ depth' = 0
    /\ overflowed' = FALSE

CallResolveIndex ==
    /\ op = "none"
    /\ \E g \in Generators, bd \in LegalBounds, i \in -MaxIndex..MaxIndex :
        /\ op' = "resolve_index"
        /\ args' = [self |-> LatticeDimension(g, bd), index |-> i]
        /\ ret' = resolve_index(LatticeDimension(g, bd), i)
    /\ pc' = "idle"
    /\ cur' = <<>>
    /\ depth' = 0
    /\ overflowed' = FALSE

CallAt ==
    /\ op = "none"
    /\ \E dims \in SeqsUpTo(Axes, MaxLen),
          indices \in SeqsUpTo(-MaxCoord..MaxCoord, MaxLen) :
        /\ op' = "at"
        /\ args' = [self |-> Lattice(dims), indices |-> indices]
        /\ ret' = at(Lattice(dims), indices)
    /\ pc' = "idle"
    /\ cur' = <<>>
    /\ depth' = 0
    /\ overflowed' = FALSE

\* normalize, one recursive call at a time: cur is the receiver of the
\* innermost call, depth the number of recursive calls made so far, counted
\* up to MaxDepth (a recursion that goes on for ever is a loop of the model)
deeper(d) == IF d < MaxDepth THEN d + 1 ELSE d

CallNormalize ==
    \E x \in PosRatios :
        /\ op = "none"
        /\ op' = "normalize"
        /\ args' = [self |-> x]
        /\ ret' = <<>>
        /\ pc' = "running"
        /\ cur' = x
        /\ depth' = 0
        /\ overflowed' = FALSE

NormalizeLow ==
    /\ pc = "running"
    /\ f32_lt_1(cur)
    /\ ~double_overflows(cur.numer)
    /\ cur' = normalize_low(cur)
    /\ depth' = deeper(depth)
    /\ UNCHANGED <<op, args, ret, pc, overflowed>>

NormalizeHigh ==
    /\ pc = "running"
    /\ ~f32_lt_1(cur)
    /\ f32_ge_2(cur)
    /\ ~double_overflows(cur.denom)
    /\ cur' = normalize_high(cur)
    /\ depth' = deeper(depth)
    /\ UNCHANGED <<op, args, ret, pc, overflowed>>

NormalizeReturn ==
    /\ pc = "running"
    /\ ~f32_lt_1(cur)
    /\ ~f32_ge_2(cur)
    /\ ret' = normalize_base(cur)
    /\ pc' = "done"
    /\ UNCHANGED <<op, args, cur, depth, overflowed>>

\* self.numer * 2 overflows: a build with overflow checks (the default of
\* debug and test builds) panics, a build without them goes on with the
\* wrapped product
NormalizeLowOverflow ==
    /\ pc = "running"
    /\ f32_lt_1(cur)
    /\ double_overflows(cur.numer)
    /\ \/ /\ pc' = "panicked"
          /\ UNCHANGED <<cur, depth>>
       \/ /\ cur' = new(wrapping_double(cur.numer), cur.denom)
          /\ depth' = deeper(depth)
          /\ UNCHANGED pc
    /\ overflowed' = TRUE
    /\ UNCHANGED <<op, args, ret>>

\* self.denom * 2 overflows
NormalizeHighOverflow ==
    /\ pc = "running"
    /\ ~f32_lt_1(cur)
    /\ f32_ge_2(cur)
    /\ double_overflows(cur.denom)
    /\ \/ /\ pc' = "panicked"
          /\ UNCHANGED <<cur, depth>>
       \/ /\ cur' = new(cur.numer, wrapping_double(cur.denom))
          /\ depth' = deeper(depth)
          /\ UNCHANGED pc
    /\ overflowed' = TRUE
    /\ UNCHANGED <<op, args, ret>>

\* the caller drops the result of a call that has returned: every value of
\* the library is Copy and no call leaves anything behind
Drop ==
    /\ op # "none"
    /\ pc \in {"idle", "done"}
    /\ op' = "none"
    /\ args' = <<>>
    /\ ret' = <<>>
    /\ pc' = "idle"
    /\ cur' = <<>>
    /\ depth' = 0
    /\ overflowed' = FALSE

NormalizeStep ==
    \/ NormalizeLow
    \/ NormalizeHigh
    \/ NormalizeReturn
    \/ NormalizeLowOverflow
    \/ NormalizeHighOverflow

Next ==
    \/ CallNew
    \/ CallMul
    \/ CallPow
    \/ CallResolveIndex
    \/ CallAt
    \/ CallNormalize
    \/ NormalizeLow
    \/ NormalizeHigh
    \/ NormalizeReturn
    \/ NormalizeLowOverflow
    \/ NormalizeHighOverflow
    \/ Drop

Spec == Init /\ [][Next]_vars

\* The calls of normalize alone.  The library is synchronous and
\* single-threaded: a call that has a next step takes it.
NormalizeNext ==
    \/ CallNormalize
    \/ NormalizeLow
    \/ NormalizeHigh
    \/ NormalizeReturn
    \/ NormalizeLowOverflow
    \/ NormalizeHighOverflow
    \/ Drop

LiveSpec == Init /\ [][NormalizeNext]_vars /\ WF_vars(NormalizeStep)

\* the step machine of normalize computes what the operator normalize computes
StepsAgree ==
    (op = "normalize" /\ pc = "done" /\ ~overflowed) => ret = normalize(args.self)

(***************************************************************************)
(* Vocabulary of the properties.                                           *)
(***************************************************************************)
Divides(k, x) == Abs(x) % k = 0

\* the greatest common divisor of x >= 0 and y >= 0, not both 0
RECURSIVE TrueGcd(_, _)
TrueGcd(x, y) == IF y = 0 THEN x ELSE TrueGcd(y, x % y)

\* no integer greater than 1 divides both x and y
Coprime(x, y) == TrueGcd(Abs(x), Abs(y)) = 1

\* x > 0 without its factors 2
RECURSIVE OddPart(_)
OddPart(x) == IF x % 2 = 0 THEN OddPart(x \div 2) ELSE x

\* the positive ratios x and r differ by a power of two: in lowest terms
\* their numerators have the same odd part, and so have their denominators
PowerOfTwoApart(x, r) ==
    LET g == TrueGcd(x.numer, x.denom)
        h == TrueGcd(r.numer, r.denom)
    IN /\ OddPart(x.numer \div g) = OddPart(r.numer \div h)
       /\ OddPart(x.denom \div g) = OddPart(r.denom \div h)

Min(x, y) == IF x <= y THEN x ELSE y

Reverse(s) == [i \in 1..Len(s) |-> s[Len(s) + 1 - i]]

\* the left-to-right product, from Ratio(1,1), of the first k per-axis powers
RECURSIVE AxisProduct(_, _, _)
AxisProduct(dims, coords, k) ==
    IF k = 0 THEN Ratio(1, 1)
    ELSE mul(AxisProduct(dims, coords, k - 1),
             pow(dims[k].ratio, resolve_index(dims[k], coords[k])))

(***************************************************************************)
(* C1.  On a RangeBounded(lo, hi) axis with lo <= hi, of either sign,      *)
(* resolve_index returns a value r with lo <= r <= hi.                     *)
(* The code offsets by |lo|: with lo > 0 it answers in [-lo, hi - 2 lo].   *)
(***************************************************************************)
C1_RangeWithinBounds ==
    (op = "resolve_index" /\ args.self.bounds.kind = "RangeBounded")
        => /\ args.self.bounds.a <= ret
           /\ ret <= args.self.bounds.b

(***************************************************************************)
(* C2.  For a denominator d > 0 and a numerator n of either sign,          *)
(* Ratio::new(n, d) stores (n', d') with n * d' = n' * d, namely n and d   *)
(* divided by the greatest common divisor of |n| and d.                    *)
(* gcd leaves its loop at once on a negative numerator and returns d.      *)
(***************************************************************************)
C2_NewKeepsValue ==
    (op = "new" /\ args.denom > 0)
        => LET g == TrueGcd(Abs(args.numer), args.denom)
           IN /\ args.numer * ret.denom = ret.numer * args.denom
              /\ ret = Ratio(quot(args.numer, g), quot(args.denom, g))

(***************************************************************************)
(* C3.  After Ratio::new(n, d), d # 0, whatever the signs of n and d, the  *)
(* stored numerator and denominator are coprime.                           *)
(* With n > 0 > d the divisor gcd returns need not divide n or d.          *)
(***************************************************************************)
C3_NewIsCoprime == (op = "new") => Coprime(ret.numer, ret.denom)

(***************************************************************************)
(* C4.  On a ZeroBounded(n) axis, n # 0, resolve_index(index) is congruent *)
(* to index modulo n and lies in [0, n) when n > 0, in (n, 0] when n < 0.  *)
(***************************************************************************)
C4_ZeroBoundedResidue ==
    (op = "resolve_index" /\ args.self.bounds.kind = "ZeroBounded")
        => LET n == args.self.bounds.a
           IN /\ Divides(Abs(n), ret - args.index)
              /\ n > 0 => (0 <= ret /\ ret < n)
              /\ n < 0 => (n < ret /\ ret <= 0)

\* the fourth assertion of resolve_zero_bounded_negative_dimension, at index 3
C4_Witness ==
    /\ op = "resolve_index"
    /\ args.self.bounds = ZeroBounded(-2)
    /\ args.index = 3
    /\ ret = -1

(***************************************************************************)
(* C5.  For a positive ratio x, no i32 product overflowing, normalize(x)   *)
(* returns a reduced ratio r with 1 <= r < 2 that differs from x by a      *)
(* power of two.                                                           *)
(* The guards compare f32 casts: from 2^24 on two different integers can   *)
(* cast to the same float, and a ratio below 1 is returned as it is.       *)
(***************************************************************************)
C5_NormalizeInOctave ==
    (op = "normalize" /\ pc = "done" /\ ~overflowed)
        => /\ ret.numer > 0 /\ ret.denom > 0
           /\ ret.denom <= ret.numer
           /\ ret.numer - ret.denom < ret.denom
           /\ Coprime(ret.numer, ret.denom)
           /\ PowerOfTwoApart(args.self, ret)

(***************************************************************************)
(* C6.  The recursion of normalize terminates for every positive ratio:    *)
(* every call that is running eventually reaches the base case and         *)
(* returns.                                                                *)
(* An i32 of 2^31 - 64 or more casts to the float 2^31, so that a ratio    *)
(* just below 2 is halved once more and the doubled denominator overflows. *)
(***************************************************************************)
C6_NormalizeTerminates == (pc = "running") ~> (pc = "done")

(***************************************************************************)
(* C7.  normalize is idempotent: for every positive ratio x,               *)
(* normalize(normalize(x)) = normalize(x), whenever normalize(x) returns   *)
(* without an overflow.                                                    *)
(***************************************************************************)
C7_NormalizeIdempotent ==
    (op = "normalize" /\ pc = "done" /\ ~overflowed)
        => /\ normalize(ret) = ret
           /\ normalize(normalize(args.self)) = normalize(args.self)

\* an argument that normalize changes, and whose result it leaves alone
C7_Witness ==
    /\ op = "normalize"
    /\ pc = "done"
    /\ ~overflowed
    /\ args.self = Ratio(3, 8)
    /\ ret = Ratio(3, 2)
    /\ depth = 2

(***************************************************************************)
(* C8.  A negative exponent goes through the complement: for a positive    *)
(* ratio a and n > 0, pow(a, -n) = pow(c, n) with c = normalize(2 / a),    *)
(* that is Ratio::new(c.numer^n, c.denom^n); and a lattice of one          *)
(* unbounded axis of generator g has at([-n]) = pow(complement(g), n).     *)
(***************************************************************************)
C8_NegativePowIsComplementPow ==
    /\ (op = "pow" /\ args.exp < 0)
        => LET c == normalize(div(new(2, 1), args.self))
               n == -args.exp
           IN /\ ret = pow(c, n)
              /\ ret = new(ipow(c.numer, n), ipow(c.denom, n))
    /\ (/\ op = "at"
        /\ Len(args.self.dimensions) = 1
        /\ Len(args.indices) = 1
        /\ args.self.dimensions[1].bounds = Infinity
        /\ args.indices[1] < 0)
        => ret = pow(complement(args.self.dimensions[1].ratio), -args.indices[1])

\* the last assertion of the test pow
C8_Witness ==
    /\ op = "pow"
    /\ args.self = Ratio(3, 2)
    /\ args.exp = -2
    /\ ret = Ratio(16, 9)

(***************************************************************************)
(* C9.  Lattice::at pairs axes and coordinates by position and stops at    *)
(* the shorter sequence: with k the smaller of the two lengths, the result *)
(* is the product, from Ratio(1,1), of the first k per-axis powers, so     *)
(* that extra axes or extra coordinates change nothing and an empty        *)
(* coordinate list yields Ratio(1,1).                                      *)
(***************************************************************************)
C9_AtTruncates ==
    (op = "at")
        => LET dims == args.self.dimensions
               coords == args.indices
               k == Min(Len(dims), Len(coords))
           IN /\ ret = AxisProduct(dims, coords, k)
              /\ ret = at(Lattice(SubSeq(dims, 1, k)), SubSeq(coords, 1, k))
              /\ coords = <<>> => ret = Ratio(1, 1)

\* two axes and one coordinate: the second axis is ignored
C9_Witness ==
    /\ op = "at"
    /\ Len(args.self.dimensions) = 2
    /\ args.indices = <<1>>
    /\ ret = args.self.dimensions[1].ratio
    /\ ret # Ratio(1, 1)

(***************************************************************************)
(* C10.  Multiplication of ratios built by Ratio::new is commutative and   *)
(* associative, reduction included: a * b = b * a and                      *)
(* (a * b) * c = a * (b * c); hence Lattice::at returns the same ratio     *)
(* when the axes and their coordinates are permuted together.              *)
(* Associativity fails as soon as an operand or a product has a negative   *)
(* numerator or denominator, where reduce goes wrong (C2, C3).             *)
(***************************************************************************)
C10_MulCommutativeAssociative ==
    /\ (op = "mul")
        => /\ mul(args.a, args.b) = mul(args.b, args.a)
           /\ ret = mul(args.a, mul(args.b, args.c))
    /\ (op = "at" /\ Len(args.self.dimensions) = Len(args.indices))
        => ret = at(Lattice(Reverse(args.self.dimensions)), Reverse(args.indices))

====
